---- MODULE Spec2Model ----
(***************************************************************************)
(* A model of python_bootstrap/bootstrap.py: the one-shot provisioning     *)
(* script that creates a project directory and drives git, pyenv, poetry   *)
(* and pre-commit through the shell.                                       *)
(*                                                                         *)
(* The state is what the script can change: the directory tree, the        *)
(* working directory, the files it (or a tool it runs) writes, the git     *)
(* repository, the registered notebook kernels, its standard output and    *)
(* its exit.  `log` is the history of the steps the script has attempted.  *)
(*                                                                         *)
(* External tools are modelled by their documented effect when they exit 0 *)
(* and, the pre-commit hooks apart (they leave the files they fixed), by   *)
(* no effect on the modelled state when they exit non-zero; which of the   *)
(* two happens is the environment's choice, as is the branch `git init`    *)
(* starts on and the repositories `pre-commit autoupdate` finds newer tags *)
(* for.                                                                    *)
(***************************************************************************)
EXTENDS Integers, Sequences, FiniteSets, TLC

VARIABLES
    sys_argv,        \* sys.argv: the script name, then the arguments
    pc,              \* the statement the script is about to execute
    ip,              \* <<call, index>>: position inside the install_packages calls
    term,            \* "none" while running, then "success" or "abort"
    cause,           \* why the run aborted
    status,          \* the process's exit status (-1 while running)
    out,             \* what the script has printed
    log,             \* the steps attempted so far, in order
    dirs,            \* the directories that exist (absolute paths)
    cwd,             \* the working directory (an absolute path)
    files,           \* absolute path -> content of every regular file
    git,             \* the repository in the working directory
    kernels,         \* the notebook kernels registered for the user
    python_version,  \* the local variable of bootstrap()
    dirs0            \* the directory tree the run started from

vars == <<sys_argv, pc, ip, term, cause, status, out, log, dirs, cwd, files,
          git, kernels, python_version, dirs0>>

\* what lives outside the process and survives it
world == <<dirs, cwd, files, git, kernels>>

-----------------------------------------------------------------------------
(* Bounds of the model *)

\* the longest directory argument, in path components
MaxPathLen == 2

\* the names a path component is drawn from
Names == {"p", "q"}

\* the directory the script is started in
Home == <<"home">>

\* directories that may exist before the run (with their ancestors)
PreCandidates == {<<"home", "p">>, <<"p">>}

-----------------------------------------------------------------------------
(* Paths: os.path semantics on sequences of components *)

Components == UNION {[1..n -> Names] : n \in 1..MaxPathLen}

\* a directory argument: "/p/q" is [abs |-> TRUE, comps |-> <<"p","q">>]
Arguments == [abs : BOOLEAN, comps : Components]

\* the path as it appears inside an f-string
PathTokens(d) == (IF d.abs THEN <<"/">> ELSE <<>>) \o d.comps

\* the absolute path a (possibly relative) path names from directory `at`
Resolve(at, d) == IF d.abs THEN d.comps ELSE at \o d.comps

Prefixes(p) == {SubSeq(p, 1, n) : n \in 0..Len(p)}

\* os.path.exists(directory)
PathExistsNever(at, d, ds, fs) == FALSE
PathExists(at, d, ds, fs) == Resolve(at, d) \in ds \/ Resolve(at, d) \in DOMAIN fs

\* os.makedirs(name) with exist_ok=False: the leaf must not exist; missing
\* ancestors are created on the way
MakedirsRaises(at, d, ds) == Resolve(at, d) \in ds
Makedirs(at, d, ds) == ds \cup Prefixes(Resolve(at, d))

-----------------------------------------------------------------------------
(* Text: a sequence of "\n"-separated segments, each with its leading      *)
(* spaces counted and the rest as tokens.  A text ending in a newline has  *)
(* an empty last segment.                                                  *)

L(i, t) == [indent |-> i, text |-> t]
Empty == L(0, <<>>)
IsBlank(seg) == seg.text = <<>>

Front(s) == SubSeq(s, 1, Len(s) - 1)
Last(s) == s[Len(s)]

SetMin(S) == CHOOSE m \in S : \A n \in S : m <= n

\* textwrap.dedent: whitespace-only lines become empty, the common margin of
\* the other lines is removed
DedentAll(t) ==
    [i \in 1..Len(t) |-> IF IsBlank(t[i]) THEN Empty ELSE L(0, t[i].text)]
Dedent(t) ==
    LET solid == {i \in 1..Len(t) : ~IsBlank(t[i])}
        margin == IF solid = {} THEN 0 ELSE SetMin({t[i].indent : i \in solid})
    IN  [i \in 1..Len(t) |->
            IF IsBlank(t[i]) THEN Empty ELSE L(t[i].indent - margin, t[i].text)]

\* str concatenation, as f.write at the end of a file does
Concat(a, b) ==
    IF a = <<>> THEN b
    ELSE IF b = <<>> THEN a
    ELSE LET x == Last(a)
             y == Head(b)
             joined == IF x = Empty THEN y
                       ELSE L(x.indent, x.text \o y.text)
         IN  Front(a) \o <<joined>> \o Tail(b)

\* the file system's map with one file (re)written
Put(fs, k, v) == [f \in DOMAIN fs \cup {k} |-> IF f = k THEN v ELSE fs[f]]
NoFiles == [f \in {} |-> <<>>]

\* open(name, "w").write(text) and open(name, "a").write(text) in directory `at`
WriteFile(fs, at, name, text) == Put(fs, at \o <<name>>, text)
AppendFileTruncating(fs, at, name, text) == Put(fs, at \o <<name>>, text)
AppendFile(fs, at, name, text) ==
    LET k == at \o <<name>>
    IN  Put(fs, k, IF k \in DOMAIN fs THEN Concat(fs[k], text) ELSE text)

-----------------------------------------------------------------------------
(* The fixed texts of the script *)

\* add_poetry_configs: the literal between the triple quotes, before dedent
poetry_config_literal ==
    << Empty,
       L(8, <<"[tool.black]">>),
       L(8, <<"line-length = 120">>),
       Empty,
       L(8, <<"[tool.isort]">>),
       L(8, <<"atomic = true">>),
       L(8, <<"line_length = 120">>),
       L(8, <<"multi_line_output = 3">>),
       L(8, <<"include_trailing_comma = true">>),
       L(8, <<"force_grid_wrap = 0">>),
       L(8, <<"use_parentheses = true">>),
       L(8, <<"order_by_type = true">>),
       L(8, <<"case_sensitive = true">>),
       L(8, <<"skip=[\".cache\"]">>),
       L(8, <<>>) >>

\* create_flake8_config: the literal starts on the line of the opening quotes,
\* so its first line carries no margin
flake8_literal ==
    << L(0, <<"[flake8]">>),
       L(8, <<"; E203: black's space before ':' in list slices">>),
       L(8, <<"; W503: line break before binary operator">>),
       L(8, <<"ignore = E203,W503">>),
       L(8, <<"max-line-length = 120">>),
       L(8, <<>>) >>

Repos == << "https://github.com/pre-commit/pre-commit-hooks",
            "https://github.com/psf/black",
            "https://github.com/PyCQA/isort",
            "https://github.com/charliermarsh/ruff-pre-commit" >>

\* create_pre_commit_config: written as is (no dedent)
pre_commit_basic_config ==
    << L(0, <<"repos:">>),
       L(0, <<"-   repo:", Repos[1]>>),
       L(4, <<"rev:", "v4.0.1">>),
       L(4, <<"hooks:">>),
       L(4, <<"- id: trailing-whitespace">>),
       L(4, <<"- id: end-of-file-fixer">>),
       L(4, <<"- id: check-yaml">>),
       L(4, <<"- id: check-json">>),
       L(4, <<"- id: check-toml">>),
       L(4, <<"- id: check-added-large-files">>),
       L(6, <<"args:">>),
       L(8, <<"- maxkb=1024">>),
       L(4, <<"- id: check-executables-have-shebangs">>),
       L(4, <<"- id: check-merge-conflict">>),
       Empty,
       L(0, <<"-   repo:", Repos[2]>>),
       L(4, <<"rev:", "22.3.0">>),
       L(4, <<"hooks:">>),
       L(4, <<"- id: black">>),
       L(0, <<"-   repo:", Repos[3]>>),
       L(4, <<"rev:", "5.10.1">>),
       L(4, <<"hooks:">>),
       L(4, <<"- id: isort">>),
       L(0, <<"-   repo:", Repos[4]>>),
       L(4, <<"rev:", "v0.0.241">>),
       L(4, <<"hooks:">>),
       L(4, <<"- id: ruff">>),
       Empty >>

\* the five install_packages calls of bootstrap(), in order
InstallCalls ==
    << [packages |-> <<"black", "isort", "ruff", "pylint", "flake8">>, dev |-> TRUE],
       [packages |-> <<"torch", "transformers", "scikit-learn", "pandas", "numpy",
                       "scipy", "tqdm">>, dev |-> FALSE],
       [packages |-> <<"pytorch-lightning", "seaborn", "matplotlib", "torchmetrics">>,
        dev |-> TRUE],
       [packages |-> <<"jupyterlab", "ipywidgets">>, dev |-> TRUE],
       [packages |-> <<"psycopg2", "sqlalchemy">>, dev |-> FALSE] >>

\* the files named by the git add command
GitAddFiles == {".flake8", ".pre-commit-config.yaml", ".python-version", "README.md",
                "poetry.lock", "pyproject.toml", ".gitignore"}

\* the statements of bootstrap() after the precondition check, in program order
WorkflowSwapped ==
    << "makedirs_project", "chdir", "makedirs_package",
       "python_version", "pyenv_local",
       "git_init", "write_readme", "curl_gitignore",
       "pip_install_poetry", "poetry_config_in_project", "poetry_config_create",
       "poetry_self_add", "poetry_init", "poetry_check", "add_poetry_configs",
       "create_flake8_config",
       "poetry_add_pre_commit", "pre_commit_install", "create_pre_commit_config",
       "pre_commit_autoupdate", "pre_commit_run",
       "install_packages",
       "poetry_add_ipykernel", "ipykernel_install",
       "git_add", "git_commit", "git_branch",
       "finish" >>
Workflow ==
    << "makedirs_project", "chdir", "makedirs_package",
       "python_version", "pyenv_local",
       "git_init", "write_readme", "curl_gitignore",
       "pip_install_poetry", "poetry_config_in_project", "poetry_config_create",
       "poetry_self_add", "poetry_init", "poetry_check", "add_poetry_configs",
       "create_flake8_config",
       "create_pre_commit_config", "poetry_add_pre_commit", "pre_commit_install",
       "pre_commit_autoupdate", "pre_commit_run",
       "install_packages",
       "poetry_add_ipykernel", "ipykernel_install",
       "git_add", "git_commit", "git_branch",
       "finish" >>

IndexOf(s, x) == CHOOSE i \in 1..Len(s) : s[i] = x

\* the statement that follows `label`
After(label) == Workflow[IndexOf(Workflow, label) + 1]

-----------------------------------------------------------------------------
(* Processes *)

\* exit statuses of an external program: 0, or 1 standing for any non-zero status
ExitCodes == {0, 1}

\* sh -c "a | b" exits with the status of the last command of the pipeline
ShellStatus(exits) == Last(exits)

\* run_command: subprocess.run(..., check=check) raises CalledProcessError on a
\* non-zero status of the shell
run_command_raises(rc, check) == check /\ rc # 0

\* what `python --version` can do: print its version and exit 0, or fail
\* (not on PATH, a broken shim) having printed nothing on standard output
PythonRuns == { [exit |-> 0, stdout |-> << <<"Python", "3.11.4">> >>],
                [exit |-> 1, stdout |-> << >>] }

\* cut -d ' ' -f n: a line without the delimiter is printed whole, otherwise
\* its n-th field, or nothing when it has fewer fields
CutField(lines, n) ==
    [i \in 1..Len(lines) |->
        IF Len(lines[i]) = 1 THEN lines[i]
        ELSE IF n <= Len(lines[i]) THEN <<lines[i][n]>> ELSE <<>>]

RECURSIVE Flatten(_)
Flatten(lines) == IF lines = <<>> THEN <<>> ELSE Head(lines) \o Flatten(Tail(lines))

\* result.stdout.strip(): the captured words without surrounding white space
Strip(lines) == Flatten(lines)

\* a step of the history: the statement, the command line it ran (if any), the
\* exit status of each program of that command line, the exception it raised
Entry(label, cmd, exits, raised) ==
    [label |-> label, cmd |-> cmd, exits |-> exits, raised |-> raised]

\* the branch a new repository starts on (init.defaultBranch)
DefaultBranches == {"master", "main"}

NoGit == [init |-> FALSE, branch |-> "", hooks |-> FALSE,
          index |-> NoFiles, commits |-> <<>>]

-----------------------------------------------------------------------------
(* The tools' effects on files *)

TableHeaders == {"[tool.poetry]", "[tool.poetry.dependencies]",
                 "[tool.poetry.group.dev.dependencies]", "[build-system]",
                 "[tool.black]", "[tool.isort]"}

IsHeader(seg) == Len(seg.text) = 1 /\ seg.text[1] \in TableHeaders

\* the manifest `poetry init -n` writes for the project in directory `at`
InitialManifest(at, version) ==
    << L(0, <<"[tool.poetry]">>),
       L(0, <<"name =", Last(at)>>),
       L(0, <<"version = \"0.1.0\"">>),
       L(0, <<"readme = \"README.md\"">>),
       Empty,
       L(0, <<"[tool.poetry.dependencies]">>),
       L(0, <<"python = ^">> \o version),
       Empty,
       L(0, <<"[build-system]">>),
       L(0, <<"requires = [\"poetry-core\"]">>),
       L(0, <<"build-backend = \"poetry.core.masonry.api\"">>),
       Empty >>

SetMax(S) == CHOOSE m \in S : \A n \in S : n <= m

InsertAt(t, i, segs) == SubSeq(t, 1, i) \o segs \o SubSeq(t, i + 1, Len(t))

\* `poetry add [--group dev] package`: the manifest rewritten with the
\* dependency entered in its table, every other table kept as it is
AddDependency(t, dev, package) ==
    LET header == IF dev THEN "[tool.poetry.group.dev.dependencies]"
                  ELSE "[tool.poetry.dependencies]"
        entry == L(0, <<package, "= \"*\"">>)
        at(h) == {i \in 1..Len(t) : t[i].text = <<h>>}
    IN  IF at(header) # {}
        THEN LET h == SetMin(at(header))
                 later == {i \in (h + 1)..Len(t) : IsHeader(t[i])}
                 stop == IF later = {} THEN Len(t) + 1 ELSE SetMin(later)
                 body == {i \in h..(stop - 1) : ~IsBlank(t[i])}
             IN  InsertAt(t, SetMax(body), <<entry>>)
        ELSE LET b == SetMin(at("[build-system]"))
             IN  InsertAt(t, b - 1, <<L(0, <<header>>), entry, Empty>>)

\* the lock file with one more package locked
LockWith(t, package) ==
    (IF t = <<>> THEN <<>> ELSE Front(t)) \o <<L(0, <<"package", package>>), Empty>>

\* `pre-commit autoupdate`: the rev of every repository in `updated` (those
\* with a newer tag than the pinned one) is rewritten to that tag
Autoupdate(t, updated) ==
    [i \in 1..Len(t) |->
        IF Len(t[i].text) = 2 /\ t[i].text[1] = "rev:"
        THEN LET repos == {j \in 1..i : Len(t[j].text) = 2 /\ t[j].text[1] = "-   repo:"}
                 repo == t[SetMax(repos)].text[2]
             IN  IF repo \in updated THEN L(t[i].indent, <<"rev:", "latest">>) ELSE t[i]
        ELSE t[i]]

RECURSIVE StripTrailingEmpty(_)
StripTrailingEmpty(t) ==
    IF t # <<>> /\ Last(t) = Empty THEN StripTrailingEmpty(Front(t)) ELSE t

\* the trailing-whitespace and end-of-file-fixer hooks: no white space at the
\* end of a line, exactly one newline at the end of a non-empty file
FixText(t) ==
    LET trimmed == [i \in 1..Len(t) |-> IF IsBlank(t[i]) THEN Empty ELSE t[i]]
        core == StripTrailingEmpty(trimmed)
    IN  IF core = <<>> THEN <<>> ELSE core \o <<Empty>>

\* the hooks run over the files `names` of directory `at`
FixFiles(fs, at, names) ==
    [f \in DOMAIN fs |->
        IF \E n \in names : f = at \o <<n>> THEN FixText(fs[f]) ELSE fs[f]]

-----------------------------------------------------------------------------
(* The state machine *)

TreeOf(S) == {<<>>, Home} \cup UNION {Prefixes(d) : d \in S}

Init ==
    /\ sys_argv \in {<<"bootstrap.py">>} \cup {<<"bootstrap.py", a>> : a \in Arguments}
    /\ dirs \in {TreeOf(S) : S \in SUBSET PreCandidates}
    /\ dirs0 = dirs
    /\ cwd = Home
    /\ files = NoFiles
    /\ git = NoGit
    /\ kernels = {}
    /\ pc = "main"
    /\ ip = <<1, 1>>
    /\ term = "none"
    /\ cause = ""
    /\ status = -1
    /\ out = <<>>
    /\ log = <<>>
    /\ python_version = <<>>

\* the argument bootstrap() is called with
directory == sys_argv[2]

\* the world as one value, for the steps to rewrite
W == [dirs |-> dirs, cwd |-> cwd, files |-> files, git |-> git, kernels |-> kernels]

SetWorld(w) ==
    /\ dirs' = w.dirs
    /\ cwd' = w.cwd
    /\ files' = w.files
    /\ git' = w.git
    /\ kernels' = w.kernels

InCwd(name) == cwd \o <<name>> \in DOMAIN files

\* sys.exit(code), or an exception nobody catches (the interpreter exits 1)
Terminate(how, why, code) ==
    /\ term' = how
    /\ cause' = why
    /\ status' = code
    /\ pc' = "exit"

\* a statement of the script itself: it either raises or has its effect and
\* prints, and control passes to the next statement
Step(label, raised, new, prints) ==
    /\ pc = label
    /\ log' = Append(log, Entry(label, <<>>, <<>>, raised))
    /\ IF raised # ""
       THEN /\ Terminate("abort", raised, 1)
            /\ UNCHANGED <<world, out>>
       ELSE /\ SetWorld(new)
            /\ out' = out \o prints
            /\ pc' = After(label)
            /\ UNCHANGED <<term, cause, status>>
    /\ UNCHANGED <<sys_argv, dirs0, ip, python_version>>

\* run_command(cmd): the command exits rc; a non-zero rc raises out of
\* bootstrap(), otherwise the script goes on to print and to the next statement.
\* `possible` is what the tool needs to succeed, `new` the world it leaves
\* when it does, `failed` the world it leaves when it does not.
CmdF(label, cmd, possible, new, failed, prints) ==
    /\ pc = label
    /\ \E rc \in ExitCodes :
        /\ (rc = 0) => possible
        /\ log' = Append(log, Entry(label, cmd, <<rc>>, ""))
        /\ IF run_command_raises(ShellStatus(<<rc>>), TRUE)
           THEN /\ Terminate("abort", "CalledProcessError", 1)
                /\ SetWorld(failed)
                /\ UNCHANGED out
           ELSE /\ SetWorld(new)
                /\ out' = out \o prints
                /\ pc' = After(label)
                /\ UNCHANGED <<term, cause, status>>
    /\ UNCHANGED <<sys_argv, dirs0, ip, python_version>>

Cmd(label, cmd, possible, new, prints) == CmdF(label, cmd, possible, new, W, prints)

\* __main__
MainUsageExitsZero ==
    /\ pc = "main"
    /\ IF Len(sys_argv) > 1
       THEN /\ pc' = "check_exists"
            /\ UNCHANGED <<out, term, cause, status>>
       ELSE /\ out' = Append(out, <<"Usage: python bootstrap.py <directory>">>)
            /\ Terminate("success", "", 0)
    /\ UNCHANGED <<sys_argv, ip, log, world, python_version, dirs0>>
Main ==
    /\ pc = "main"
    /\ IF Len(sys_argv) > 1
       THEN /\ pc' = "check_exists"
            /\ UNCHANGED <<out, term, cause, status>>
       ELSE /\ out' = Append(out, <<"Usage: python bootstrap.py <directory>">>)
            /\ Terminate("abort", "usage", 1)
    /\ UNCHANGED <<sys_argv, ip, log, world, python_version, dirs0>>

\* bootstrap(): the precondition
CheckExists ==
    /\ pc = "check_exists"
    /\ IF PathExists(cwd, directory, dirs, files)
       THEN /\ out' = Append(out, <<"Directory">> \o PathTokens(directory)
                                   \o <<"already exists.">>)
            /\ Terminate("abort", "exists", 1)
       ELSE /\ out' = Append(out, <<"Bootstrapping the project...">>)
            /\ pc' = Workflow[1]
            /\ UNCHANGED <<term, cause, status>>
    /\ UNCHANGED <<sys_argv, ip, log, world, python_version, dirs0>>

\* os.makedirs(directory)
MakedirsProject ==
    Step("makedirs_project",
         IF MakedirsRaises(cwd, directory, dirs) THEN "FileExistsError" ELSE "",
         [W EXCEPT !.dirs = Makedirs(cwd, directory, dirs)], <<>>)

\* os.chdir(directory)
Chdir ==
    Step("chdir",
         IF Resolve(cwd, directory) \in dirs THEN "" ELSE "FileNotFoundError",
         [W EXCEPT !.cwd = Resolve(cwd, directory)], <<>>)

\* os.makedirs(directory), now relative to the new working directory
MakedirsPackage ==
    Step("makedirs_package",
         IF MakedirsRaises(cwd, directory, dirs) THEN "FileExistsError" ELSE "",
         [W EXCEPT !.dirs = Makedirs(cwd, directory, dirs)], <<>>)

\* python_version = run_command("python --version | cut -d ' ' -f 2", capture_output=True)
PythonVersion ==
    /\ pc = "python_version"
    /\ \E run \in PythonRuns, cut \in ExitCodes :
        LET exits == <<run.exit, cut>>
            captured == IF cut = 0 THEN CutField(run.stdout, 2) ELSE <<>>
        IN  /\ log' = Append(log, Entry("python_version",
                                        <<"python", "--version", "|", "cut", "-d", " ", "-f", "2">>,
                                        exits, ""))
            /\ IF run_command_raises(ShellStatus(exits), TRUE)
               THEN /\ Terminate("abort", "CalledProcessError", 1)
                    /\ UNCHANGED <<out, python_version>>
               ELSE /\ python_version' = Strip(captured)
                    /\ out' = Append(out, <<"Using Python">> \o Strip(captured))
                    /\ pc' = After("python_version")
                    /\ UNCHANGED <<term, cause, status>>
    /\ UNCHANGED <<sys_argv, dirs0, ip, world>>

\* run_command(f"pyenv local {python_version}"): with a version it writes
\* .python-version; with none it only reports the version already configured
\* for the directory (or an ancestor) and fails when there is none
PyenvLocal ==
    Cmd("pyenv_local", <<"pyenv", "local">> \o python_version, TRUE,
        IF python_version = <<>> THEN W
        ELSE [W EXCEPT !.files = WriteFile(files, cwd, ".python-version",
                                           <<L(0, python_version), Empty>>)],
        <<>>)

GitInit ==
    \E b \in DefaultBranches :
        Cmd("git_init", <<"git", "init">>, TRUE,
            [W EXCEPT !.git = [NoGit EXCEPT !.init = TRUE, !.branch = b]], <<>>)

\* with open("README.md", "w") as f: f.write(f"# {directory}\n")
WriteReadme ==
    Step("write_readme", "",
         [W EXCEPT !.files = WriteFile(files, cwd, "README.md",
                                       <<L(0, <<"# ">> \o PathTokens(directory)), Empty>>)],
         <<>>)

CurlGitignore ==
    Cmd("curl_gitignore",
        <<"curl", "-o", ".gitignore",
          "https://raw.githubusercontent.com/github/gitignore/master/Python.gitignore">>,
        TRUE,
        [W EXCEPT !.files = WriteFile(files, cwd, ".gitignore",
                                      <<L(0, <<"Python.gitignore">>), Empty>>)],
        <<>>)

PipInstallPoetry ==
    Cmd("pip_install_poetry", <<"pip", "install", "poetry">>, TRUE, W,
        << <<"Creating a new Poetry project...">> >>)

PoetryConfigInProject ==
    Cmd("poetry_config_in_project",
        <<"poetry", "config", "virtualenvs.in-project", "false">>, TRUE, W, <<>>)

PoetryConfigCreate ==
    Cmd("poetry_config_create",
        <<"poetry", "config", "virtualenvs.create", "true">>, TRUE, W, <<>>)

PoetrySelfAdd ==
    Cmd("poetry_self_add",
        <<"poetry", "self", "add", "poetry-dynamic-versioning[plugin]">>, TRUE, W, <<>>)

PoetryInit ==
    Cmd("poetry_init", <<"poetry", "init", "-n">>, ~InCwd("pyproject.toml"),
        [W EXCEPT !.files = WriteFile(files, cwd, "pyproject.toml",
                                      InitialManifest(cwd, python_version))],
        <<>>)

PoetryCheck ==
    Cmd("poetry_check", <<"poetry", "check", "--no-ansi", "--quiet">>,
        InCwd("pyproject.toml"), W, <<>>)

\* add_poetry_configs(): open("pyproject.toml", "a"), write the dedented block
AddPoetryConfigs ==
    Step("add_poetry_configs", "",
         [W EXCEPT !.files = AppendFile(files, cwd, "pyproject.toml",
                                        Dedent(poetry_config_literal))],
         <<>>)

\* create_flake8_config(): open(".flake8", "w"), write the dedented literal
CreateFlake8Config ==
    Step("create_flake8_config", "",
         [W EXCEPT !.files = WriteFile(files, cwd, ".flake8", Dedent(flake8_literal))],
         << <<"Directory created.">>, <<"Setting up pre-commit hooks...">> >>)

\* create_pre_commit_config(): open(".pre-commit-config.yaml", "w")
CreatePreCommitConfig ==
    Step("create_pre_commit_config", "",
         [W EXCEPT !.files = WriteFile(files, cwd, ".pre-commit-config.yaml",
                                       pre_commit_basic_config)],
         <<>>)

\* f"poetry add {group} {package}" as the shell splits it into words
PoetryAddCommandNoGroup(dev, package) == <<"poetry", "add", package>>
PoetryAddCommand(dev, package) ==
    <<"poetry", "add">> \o (IF dev THEN <<"--group", "dev">> ELSE <<>>) \o <<package>>

\* what a command line `poetry add ...` asks for
IsDevCommand(cmd) == Len(cmd) > 3 /\ cmd[3] = "--group" /\ cmd[4] = "dev"

\* the world after a successful `poetry add`: manifest and lock file rewritten
PoetryAdded(cmd) ==
    LET m == cwd \o <<"pyproject.toml">>
        k == cwd \o <<"poetry.lock">>
        package == Last(cmd)
        manifest == Put(files, m, AddDependency(files[m], IsDevCommand(cmd), package))
    IN  [W EXCEPT !.files =
            Put(manifest, k, LockWith(IF k \in DOMAIN files THEN files[k] ELSE <<>>,
                                      package))]

PoetryAddPreCommit ==
    Cmd("poetry_add_pre_commit", <<"poetry", "add", "--group", "dev", "pre-commit">>,
        InCwd("pyproject.toml"),
        PoetryAdded(<<"poetry", "add", "--group", "dev", "pre-commit">>), <<>>)

PreCommitInstall ==
    Cmd("pre_commit_install", <<"poetry", "run", "pre-commit", "install">>,
        InCwd("pyproject.toml") /\ git.init,
        [W EXCEPT !.git.hooks = TRUE], <<>>)

PreCommitAutoupdate ==
    \E updated \in SUBSET {Repos[i] : i \in DOMAIN Repos} :
        Cmd("pre_commit_autoupdate", <<"poetry", "run", "pre-commit", "autoupdate">>,
            InCwd("pyproject.toml") /\ InCwd(".pre-commit-config.yaml"),
            [W EXCEPT !.files =
                Put(files, cwd \o <<".pre-commit-config.yaml">>,
                    Autoupdate(files[cwd \o <<".pre-commit-config.yaml">>], updated))],
            <<>>)

\* `pre-commit run --all-files` runs the hooks over the files git tracks; it
\* exits 0 only when no hook had anything to fix, and leaves the fixed files
\* behind when it does not
PreCommitRun ==
    CmdF("pre_commit_run", <<"poetry", "run", "pre-commit", "run", "--all-files">>,
         /\ InCwd("pyproject.toml") /\ InCwd(".pre-commit-config.yaml") /\ git.init
         /\ FixFiles(files, cwd, DOMAIN git.index) = files,
         W,
         [W EXCEPT !.files = FixFiles(files, cwd, DOMAIN git.index)],
         << <<"pre-commit installed.">> >>)

\* install_packages(*packages, dev): one iteration of the loop of the call in
\* progress; a raise leaves the loop and bootstrap()
InstallPackages ==
    /\ pc = "install_packages"
    /\ LET call == InstallCalls[ip[1]]
           package == call.packages[ip[2]]
           cmd == PoetryAddCommand(call.dev, package)
           lastOfCall == ip[2] = Len(call.packages)
           lastCall == ip[1] = Len(InstallCalls)
       IN  \E rc \in ExitCodes :
            /\ (rc = 0) => InCwd("pyproject.toml")
            /\ log' = Append(log, Entry("install_packages", cmd, <<rc>>, ""))
            /\ IF run_command_raises(ShellStatus(<<rc>>), TRUE)
               THEN /\ Terminate("abort", "CalledProcessError", 1)
                    /\ UNCHANGED <<world, out, ip>>
               ELSE /\ SetWorld(PoetryAdded(cmd))
                    /\ ip' = IF lastOfCall THEN <<ip[1] + 1, 1>> ELSE <<ip[1], ip[2] + 1>>
                    /\ pc' = IF lastOfCall /\ lastCall THEN After("install_packages") ELSE pc
                    /\ out' = IF lastOfCall /\ lastCall
                              THEN Append(out, <<"Default packages installed.">>) ELSE out
                    /\ UNCHANGED <<term, cause, status>>
    /\ UNCHANGED <<sys_argv, dirs0, python_version>>

PoetryAddIpykernel ==
    Cmd("poetry_add_ipykernel", <<"poetry", "add", "--group", "dev", "ipykernel">>,
        InCwd("pyproject.toml"),
        PoetryAdded(<<"poetry", "add", "--group", "dev", "ipykernel">>), <<>>)

IpykernelInstall ==
    Cmd("ipykernel_install",
        <<"poetry", "run", "python", "-m", "ipykernel", "install", "--user", "--name=">>
            \o PathTokens(directory),
        InCwd("pyproject.toml"),
        [W EXCEPT !.kernels = kernels \cup {PathTokens(directory)}],
        << <<"Jupyter kernel installed.">> >>)

\* git add <files>: fails unless every path named exists
GitAdd ==
    Cmd("git_add",
        <<"git", "add", ".flake8", ".pre-commit-config.yaml", ".python-version",
          "README.md", "poetry.lock", "pyproject.toml", ".gitignore">>,
        git.init /\ \A f \in GitAddFiles : InCwd(f),
        [W EXCEPT !.git.index = [f \in GitAddFiles |-> files[cwd \o <<f>>]]],
        <<>>)

\* git commit: with the pre-commit hook installed the commit is made only if
\* no hook has anything to fix in the staged files
GitCommit ==
    CmdF("git_commit", <<"git", "commit", "-m", "Initial commit">>,
         /\ git.init
         /\ DOMAIN git.index # {}
         /\ git.hooks => FixFiles(files, cwd, DOMAIN git.index) = files,
         [W EXCEPT !.git.commits =
             Append(git.commits, [message |-> "Initial commit", tree |-> git.index])],
         IF git.hooks THEN [W EXCEPT !.files = FixFiles(files, cwd, DOMAIN git.index)]
         ELSE W,
         <<>>)

\* git branch -M main
GitBranch ==
    Cmd("git_branch", <<"git", "branch", "-M", "main">>, git.init,
        [W EXCEPT !.git.branch = "main"],
        << <<"Initial structure committed in git.">> >>)

\* the last prints; bootstrap() returns and the interpreter exits 0
Finish ==
    /\ pc = "finish"
    /\ out' = out \o << <<"Bootstrap completed successfully.">>, <<"Happy coding!">> >>
    /\ Terminate("success", "", 0)
    /\ UNCHANGED <<sys_argv, ip, log, world, python_version, dirs0>>

Next ==
    \/ Main
    \/ CheckExists
    \/ MakedirsProject
    \/ Chdir
    \/ MakedirsPackage
    \/ PythonVersion
    \/ PyenvLocal
    \/ GitInit
    \/ WriteReadme
    \/ CurlGitignore
    \/ PipInstallPoetry
    \/ PoetryConfigInProject
    \/ PoetryConfigCreate
    \/ PoetrySelfAdd
    \/ PoetryInit
    \/ PoetryCheck
    \/ AddPoetryConfigs
    \/ CreateFlake8Config
    \/ CreatePreCommitConfig
    \/ PoetryAddPreCommit
    \/ PreCommitInstall
    \/ PreCommitAutoupdate
    \/ PreCommitRun
    \/ InstallPackages
    \/ PoetryAddIpykernel
    \/ IpykernelInstall
    \/ GitAdd
    \/ GitCommit
    \/ GitBranch
    \/ Finish

Spec == Init /\ [][Next]_vars

-----------------------------------------------------------------------------
(* Vocabulary of the properties *)

HasArgument == Len(sys_argv) > 1

\* the directory the argument names, seen from where the script was started
Target == Resolve(Home, directory)

Succeeded(e) == e.raised = "" /\ (e.exits = <<>> \/ ShellStatus(e.exits) = 0)

\* some program of the step's command line exited non-zero
ProgramFailed(e) == \E j \in DOMAIN e.exits : e.exits[j] # 0

Ran(label) == \E i \in DOMAIN log : log[i].label = label
RanWell(label) == \E i \in DOMAIN log : log[i].label = label /\ Succeeded(log[i])

FileOf(name) == files[cwd \o <<name>>]

Untouched ==
    /\ dirs = dirs0
    /\ cwd = Home
    /\ files = NoFiles
    /\ git = NoGit
    /\ kernels = {}
    /\ log = <<>>

-----------------------------------------------------------------------------
\* C1: when the directory argument names a path that already exists, the run
\* prints the "already exists" message and exits with status 1, and at no
\* moment of the run is a directory created, the working directory changed, a
\* file written or a command run.
C1_ExistingDirectoryRejected ==
    (HasArgument /\ Target \in dirs0) =>
        /\ Untouched
        /\ pc \in {"main", "check_exists", "exit"}
        /\ pc = "exit" =>
            /\ term = "abort"
            /\ cause = "exists"
            /\ status = 1
            /\ out = << <<"Directory">> \o PathTokens(directory) \o <<"already exists.">> >>

C1_Witness ==
    /\ HasArgument
    /\ Target \in dirs0
    /\ pc = "exit"
    /\ status = 1

\* C2: with no argument the script prints the usage message and exits with
\* status 1; bootstrap() is never entered, so nothing is created, written or run.
C2_NoArgumentUsage ==
    ~HasArgument =>
        /\ Untouched
        /\ pc \in {"main", "exit"}
        /\ pc = "exit" =>
            /\ term = "abort"
            /\ cause = "usage"
            /\ status = 1
            /\ out = << <<"Usage: python bootstrap.py <directory>">> >>

C2_Witness ==
    /\ ~HasArgument
    /\ pc = "exit"
    /\ status = 1

\* what each writing statement leaves behind
Leaves(label) ==
    CASE label = "write_readme" -> {"README.md"}
      [] label = "curl_gitignore" -> {".gitignore"}
      [] label = "poetry_init" -> {"pyproject.toml"}
      [] label = "create_flake8_config" -> {".flake8"}
      [] label = "create_pre_commit_config" -> {".pre-commit-config.yaml"}
      [] label = "poetry_add_pre_commit" -> {"poetry.lock"}
      [] OTHER -> {}

\* C3: every external command must succeed before the next runs: a step in
\* which an external program exited non-zero is the last step of the run and
\* the run has aborted, and what the earlier steps produced is still there.
C3_FailedCommandEndsRun ==
    /\ \A i \in DOMAIN log :
        ProgramFailed(log[i]) => (i = Len(log) /\ term = "abort")
    /\ dirs0 \subseteq dirs
    /\ \A i \in DOMAIN log :
        Succeeded(log[i]) => \A f \in Leaves(log[i].label) : InCwd(f)
    /\ RanWell("makedirs_project") => Target \in dirs

\* C4: for an argument that names nothing existing, the run creates exactly the
\* directory named and, inside it, the directory the same argument names.
C4_ExactlyProjectAndPackage ==
    ( /\ HasArgument
      /\ Target \notin dirs0
      /\ pc \notin {"main", "check_exists", "makedirs_project", "chdir",
                    "makedirs_package"} )
    => dirs \ dirs0 = {Target, Target \o directory.comps}

\* what create_flake8_config is seen to write
Flake8Written ==
    << L(0, <<"[flake8]">>),
       L(8, <<"; E203: black's space before ':' in list slices">>),
       L(8, <<"; W503: line break before binary operator">>),
       L(8, <<"ignore = E203,W503">>),
       L(8, <<"max-line-length = 120">>),
       Empty >>

IsRev(seg) == Len(seg.text) = 2 /\ seg.text[1] = "rev:"

\* the same text but for what follows "rev:" on the rev lines
SameButRevs(a, b) ==
    /\ Len(a) = Len(b)
    /\ \A i \in DOMAIN a :
        \/ a[i] = b[i]
        \/ IsRev(a[i]) /\ IsRev(b[i]) /\ a[i].indent = b[i].indent

\* C5 (as stated): once written, .flake8 and .pre-commit-config.yaml keep
\* exactly the fixed content, through to the end of a successful run.
C5_ConfigsKeepFixedContent ==
    term # "abort" =>
        /\ Ran("create_flake8_config") => FileOf(".flake8") = Flake8Written
        /\ Ran("create_pre_commit_config") =>
            FileOf(".pre-commit-config.yaml") = pre_commit_basic_config

\* C5 (amended): through to the end of a successful run .flake8 keeps exactly
\* the content written, and .pre-commit-config.yaml keeps it except for its
\* rev lines, which only `pre-commit autoupdate` rewrites.
C5_ConfigsFixedButRevs ==
    term # "abort" =>
        /\ Ran("create_flake8_config") => FileOf(".flake8") = Flake8Written
        /\ Ran("create_pre_commit_config") =>
            /\ SameButRevs(FileOf(".pre-commit-config.yaml"), pre_commit_basic_config)
            /\ ~RanWell("pre_commit_autoupdate") =>
                FileOf(".pre-commit-config.yaml") = pre_commit_basic_config

C5_Witness ==
    /\ term = "success"
    /\ FileOf(".flake8") = Flake8Written
    /\ FileOf(".pre-commit-config.yaml") # pre_commit_basic_config

Position(label) == CHOOSE i \in DOMAIN log : log[i].label = label

\* C6: every file named by git add has been produced when the run reaches
\* git add; after a successful run a commit holds exactly those files, made
\* after the add and before the branch was renamed, and the branch is main.
C6_CommitOfGeneratedFiles ==
    /\ pc = "git_add" => \A f \in GitAddFiles : InCwd(f)
    /\ term = "success" =>
        /\ Len(git.commits) = 1
        /\ DOMAIN git.commits[1].tree = GitAddFiles
        /\ git.branch = "main"
        /\ Position("git_add") < Position("git_commit")
        /\ Position("git_commit") < Position("git_branch")

\* the two configuration blocks add_poetry_configs is seen to append
PoetryBlocksWritten ==
    << L(0, <<"[tool.black]">>),
       L(0, <<"line-length = 120">>),
       Empty,
       L(0, <<"[tool.isort]">>),
       L(0, <<"atomic = true">>),
       L(0, <<"line_length = 120">>),
       L(0, <<"multi_line_output = 3">>),
       L(0, <<"include_trailing_comma = true">>),
       L(0, <<"force_grid_wrap = 0">>),
       L(0, <<"use_parentheses = true">>),
       L(0, <<"order_by_type = true">>),
       L(0, <<"case_sensitive = true">>),
       L(0, <<"skip=[\".cache\"]">>),
       Empty >>

\* where `block` occurs in `t` as consecutive lines
Occurrences(t, block) ==
    {i \in 1..(Len(t) - Len(block) + 1) : SubSeq(t, i, i + Len(block) - 1) = block}

HeaderLines(t, h) == {i \in 1..Len(t) : t[i].text = <<h>>}

TimesRun(label) == Cardinality({i \in DOMAIN log : log[i].label = label})

\* C7: add_poetry_configs runs once, after `poetry init` has created the
\* manifest; from then on, through to the end of a successful run, the manifest
\* holds what init wrote followed by the [tool.black] and [tool.isort] blocks,
\* word for word and exactly once.
C7_ManifestHoldsBothBlocks ==
    Ran("add_poetry_configs") =>
        /\ TimesRun("add_poetry_configs") = 1
        /\ RanWell("poetry_init")
        /\ Position("poetry_init") < Position("add_poetry_configs")
        /\ InCwd("pyproject.toml")
        /\ LET t == FileOf("pyproject.toml")
               occ == Occurrences(t, PoetryBlocksWritten)
           IN  /\ Cardinality(occ) = 1
               /\ Cardinality(HeaderLines(t, "[tool.black]")) = 1
               /\ Cardinality(HeaderLines(t, "[tool.isort]")) = 1
               /\ t[1] = L(0, <<"[tool.poetry]">>)
               /\ \A i \in HeaderLines(t, "[tool.poetry]") \cup HeaderLines(t, "[build-system]") :
                    \A j \in occ : i < j

C7_Witness ==
    /\ term = "success"
    /\ Cardinality(Occurrences(FileOf("pyproject.toml"), PoetryBlocksWritten)) = 1
    /\ Len(FileOf("pyproject.toml")) > Len(InitialManifest(cwd, python_version))
                                       + Len(PoetryBlocksWritten)

\* the install_packages steps of the history
Installs == SelectSeq(log, LAMBDA e : e.label = "install_packages")

RECURSIVE ExpectedInstalls(_)
\* one command per package of each call, in order: the dev group named when
\* and only when the call is for dev
ExpectedInstalls(calls) ==
    IF calls = <<>> THEN <<>>
    ELSE LET c == Head(calls)
         IN  [i \in 1..Len(c.packages) |->
                IF c.dev THEN <<"poetry", "add", "--group", "dev", c.packages[i]>>
                ELSE <<"poetry", "add", c.packages[i]>>]
             \o ExpectedInstalls(Tail(calls))

AllExpectedInstalls == ExpectedInstalls(InstallCalls)

\* C8: the install commands issued are, in order, one per package of each
\* list, each naming that one package and the dev group exactly when the list
\* is a dev list; a failing one is the last issued; every one is issued when
\* none fails.
C8_OneInstallPerPackage ==
    LET expected == AllExpectedInstalls
        issued == Installs
    IN  /\ Len(issued) <= Len(expected)
        /\ \A i \in DOMAIN issued :
            /\ issued[i].cmd = expected[i]
            /\ issued[i].exits # <<0>> => (i = Len(issued) /\ term = "abort")
        /\ Ran("poetry_add_ipykernel") => Len(issued) = Len(expected)

C8_Witness ==
    /\ term = "abort"
    /\ Len(Installs) > Len(InstallCalls[1].packages) + 1
    /\ Len(Installs) < Len(AllExpectedInstalls)
    /\ Installs[Len(Installs)].exits = <<1>>

\* the step of the workflow (1..9) a statement belongs to
WorkflowStep(label) ==
    CASE label \in {"makedirs_project", "chdir", "makedirs_package"} -> 1
      [] label \in {"python_version", "pyenv_local"} -> 2
      [] label \in {"git_init", "write_readme", "curl_gitignore"} -> 3
      [] label \in {"pip_install_poetry", "poetry_config_in_project",
                    "poetry_config_create", "poetry_self_add", "poetry_init",
                    "poetry_check", "add_poetry_configs"} -> 4
      [] label \in {"create_flake8_config", "create_pre_commit_config"} -> 5
      [] label \in {"poetry_add_pre_commit", "pre_commit_install",
                    "pre_commit_autoupdate", "pre_commit_run"} -> 6
      [] label = "install_packages" -> 7
      [] label \in {"poetry_add_ipykernel", "ipykernel_install"} -> 8
      [] label \in {"git_add", "git_commit", "git_branch"} -> 9

Statements == {"makedirs_project", "chdir", "makedirs_package", "python_version",
               "pyenv_local", "git_init", "write_readme", "curl_gitignore",
               "pip_install_poetry", "poetry_config_in_project", "poetry_config_create",
               "poetry_self_add", "poetry_init", "poetry_check", "add_poetry_configs",
               "create_flake8_config", "create_pre_commit_config",
               "poetry_add_pre_commit", "pre_commit_install", "pre_commit_autoupdate",
               "pre_commit_run", "install_packages", "poetry_add_ipykernel",
               "ipykernel_install", "git_add", "git_commit", "git_branch"}

\* C9: the statements run in the order of the nine workflow steps: at every
\* moment the history is ordered by step, and the statement run last came only
\* after every statement of every earlier step had run and returned, all
\* package installs included.
C9_StepsInFixedOrder ==
    /\ \A i \in 1..(Len(log) - 1) :
        WorkflowStep(log[i].label) <= WorkflowStep(log[i + 1].label)
    /\ log # <<>> =>
        LET returned == {log[k].label : k \in {k \in DOMAIN log : Succeeded(log[k])}}
            now == WorkflowStep(Last(log).label)
        IN  \A l \in Statements : WorkflowStep(l) < now => l \in returned
    /\ Ran("poetry_add_ipykernel") => Len(Installs) = Len(AllExpectedInstalls)

C9_Witness ==
    /\ term = "success"
    /\ \A l \in Statements : RanWell(l)

\* C10: a run ends in success or in abort; it aborts only because there is no
\* argument, because the directory exists, or because an external command
\* failed; it succeeds only if every statement was run and succeeded; and no
\* statement (no install command) is attempted twice.
C10_TwoTerminalStates ==
    /\ term \in {"none", "success", "abort"}
    /\ (pc = "exit") <=> (term # "none")
    /\ term = "abort" =>
        \/ cause \in {"usage", "exists"} /\ log = <<>>
        \/ cause = "CalledProcessError" /\ log # <<>> /\ ProgramFailed(Last(log))
    /\ term = "success" =>
        /\ \A i \in DOMAIN log : Succeeded(log[i]) /\ ~ProgramFailed(log[i])
        /\ \A l \in Statements : Ran(l)
    /\ \A i, j \in DOMAIN log :
        (i # j /\ log[i].label = log[j].label) =>
            (log[i].label = "install_packages" /\ log[i].cmd # log[j].cmd)

====
